---- MODULE Spec2Model ----
(***************************************************************************)
(* torchopt.transform.scale_by_stddev: the centered-RMSProp gradient       *)
(* transformation.  A transformation is built once from (alpha, eps,       *)
(* initial_scale); init_fn makes the state (mu, nu) for a parameter tree;  *)
(* update_fn advances both moments and rescales the update tree, either    *)
(* in place or into freshly allocated tensors.                             *)
(*                                                                         *)
(* Tensors live in a heap (a sequence of tensors, the index is the         *)
(* tensor's identity), a tree is the sequence of the addresses of its      *)
(* leaves, a tensor is the tuple of its elements.  Element values are      *)
(* exact (see the arithmetic section).                                     *)
(***************************************************************************)
EXTENDS Integers, Sequences, FiniteSets

\* ---------------------------------------------------------------- bounds
\* Number of update calls in one run.
MaxSteps == 3

\* ------------------------------------------------------ exact arithmetic
\* A finite element is the decimal <<n, k>> = n * 10^(-k), kept canonical:
\* k >= 0, and n is no multiple of 10 unless k = 0.
AbsI(i) == IF i < 0 THEN -i ELSE i

RECURSIVE Gcd(_, _)
Gcd(a, b) == IF b = 0 THEN a ELSE Gcd(b, a % b)

P10 == <<1, 10, 100, 1000, 10000, 100000, 1000000, 10000000, 100000000, 1000000000>>
Pow10(k) == P10[k + 1]

RECURSIVE Dec(_, _)
Dec(n, k) == IF k > 0 /\ n % 10 = 0 THEN Dec(n \div 10, k - 1) ELSE <<n, k>>

NaN == <<"nan">>
PosInf == <<"inf">>
NegInf == <<"-inf">>
IsDec(v) == Len(v) = 2
Zero == <<0, 0>>
One == <<1, 0>>

DAdd(a, b) ==
    IF a[2] >= b[2]
    THEN Dec(a[1] + b[1] * Pow10(a[2] - b[2]), a[2])
    ELSE Dec(a[1] * Pow10(b[2] - a[2]) + b[1], b[2])
DMul(a, b) == Dec(a[1] * b[1], a[2] + b[2])
DNeg(a) == <<-a[1], a[2]>>
DSub(a, b) == DAdd(a, DNeg(b))
DSign(a) == IF a[1] < 0 THEN -1 ELSE IF a[1] = 0 THEN 0 ELSE 1
DLeq(a, b) == DSign(DSub(a, b)) <= 0
DAbs(a) == IF a[1] < 0 THEN DNeg(a) ELSE a

\* Floating-point operations on elements.  Finite operands are decimals; any
\* other operand is absorbed as NaN (fresh updates and the moments are always
\* finite, so only a rescaled output can be anything else).
FAdd(a, b) == IF IsDec(a) /\ IsDec(b) THEN DAdd(a, b) ELSE NaN
FMul(a, b) == IF IsDec(a) /\ IsDec(b) THEN DMul(a, b) ELSE NaN

RECURSIVE ISqrt(_)
ISqrt(n) ==
    IF n < 2 THEN n
    ELSE LET s == 2 * ISqrt(n \div 4)
         IN  IF (s + 1) * (s + 1) <= n THEN s + 1 ELSE s
IsSquare(n) == ISqrt(n) * ISqrt(n) = n

\* sqrt of an element: NaN below zero, the exact root of a decimal square,
\* else the surd <<"sqrt", vn, vk, 0, 0>> = sqrt(vn * 10^(-vk)) + 0.
FSqrt(v) ==
    IF ~IsDec(v) THEN NaN
    ELSE IF v[1] < 0 THEN NaN
    ELSE IF v[2] % 2 = 0 /\ IsSquare(v[1]) THEN Dec(ISqrt(v[1]), v[2] \div 2)
    ELSE <<"sqrt", v[1], v[2], 0, 0>>

\* x + e for the result x of a square root and a decimal e.
FAddScalar(x, e) ==
    IF IsDec(x) THEN DAdd(x, e)
    ELSE IF x[1] = "sqrt" THEN
        LET r == DAdd(<<x[4], x[5]>>, e) IN <<"sqrt", x[2], x[3], r[1], r[2]>>
    ELSE NaN

\* The fraction n/d in lowest terms, d > 0.
Frac(n, d) == LET g == Gcd(AbsI(n), d) IN <<"frac", n \div g, d \div g>>

\* g / x for a decimal g: by zero (inf of g's sign, NaN for 0/0), by a
\* decimal (an exact fraction), by a positive surd (the quotient
\* <<"quot", gn, gk, vn, vk, en, ek>>, and 0 for g = 0).
FDiv(g, x) ==
    IF ~IsDec(g) THEN NaN
    ELSE IF IsDec(x) THEN
        IF x[1] = 0
        THEN (IF g[1] > 0 THEN PosInf ELSE IF g[1] < 0 THEN NegInf ELSE NaN)
        ELSE LET s == IF x[1] < 0 THEN -1 ELSE 1
             IN  Frac(s * g[1] * Pow10(x[2]), s * x[1] * Pow10(g[2]))
    ELSE IF x[1] = "sqrt" THEN
        (IF g[1] = 0 THEN Frac(0, 1)
         ELSE <<"quot", g[1], g[2], x[2], x[3], x[4], x[5]>>)
    ELSE NaN

\* ------------------------------------------------------- tensor operations
\* A tensor is the tuple of its elements.
SameShape(a, b) == Len(a) = Len(b)
Tuple(f) == f \o <<>>

zeros_like(t) == Tuple([i \in 1..Len(t) |-> Zero])
full_like(t, c) == Tuple([i \in 1..Len(t) |-> c])
\* t.mul(c)
t_mul(t, c) == Tuple([i \in 1..Len(t) |-> FMul(t[i], c)])
\* t.add(g, alpha=a)
t_add(t, g, a) == Tuple([i \in 1..Len(t) |-> FAdd(t[i], FMul(a, g[i]))])
\* t.addcmul(a, b, value=c)
t_addcmul(t, a, b, c) ==
    Tuple([i \in 1..Len(t) |-> FAdd(t[i], FMul(c, FMul(a[i], b[i])))])
t_sqrt(t) == Tuple([i \in 1..Len(t) |-> FSqrt(t[i])])
t_add_scalar(t, e) == Tuple([i \in 1..Len(t) |-> FAddScalar(t[i], e)])
t_div(g, x) == Tuple([i \in 1..Len(g) |-> FDiv(g[i], x[i])])

\* ------------------------------------------------------------------- heap
\* Allocate tensor t: the new heap and the new tensor's address.
Alloc(h, t) == [heap |-> Append(h, t), addr |-> Len(h) + 1]
\* Overwrite the storage of tensor a.
Store(h, a, t) == [h EXCEPT ![a] = t]
\* The leaf shapes of a tree, and its leaf values.
Structure(h, tree) == Tuple([i \in 1..Len(tree) |-> Len(h[tree[i]])])
Leaves(h, tree) == Tuple([i \in 1..Len(tree) |-> h[tree[i]]])

\* ---------------------------------------------------------- leaf functions
Ok == "none"
ShapeMismatch == "ShapeMismatch"

\* The result of applying a leaf function: the heap after it, the address of
\* the tensor it returned, and the error it raised (Ok if none).
LeafResult(h, a, e) == [heap |-> h, res |-> a, err |-> e]
\* A leaf function returning a newly allocated tensor.
Fresh(r) == LeafResult(r.heap, r.addr, Ok)

\* --------------------------------------------------------- moment estimator
\* decay * p + (1 - decay) * s^order for one leaf pair.
moment_value(g, t, decay, order) ==
    IF order = 2
    THEN t_addcmul(t_mul(t, decay), g, g, DSub(One, decay))
    ELSE t_add(t_mul(t, decay), g, DSub(One, decay))

\* Write the new estimate into the previous estimate's storage and return
\* it (in place), or return it as a new tensor.
moment_put(h, a, new, inplace) ==
    IF inplace THEN LeafResult(Store(h, a, new), a, Ok) ELSE Fresh(Alloc(h, new))

\* The leaf function of update_moment, a = <<sample leaf, previous leaf>>.
moment_leaf(h, a, decay, order, inplace) ==
    IF ~SameShape(h[a[1]], h[a[2]]) THEN LeafResult(h, 0, ShapeMismatch)
    ELSE moment_put(h, a[2], moment_value(h[a[1]], h[a[2]], decay, order), inplace)

\* ------------------------------------------------------- the transformation
\* _scale_by_stddev: the hyperparameter checks; alpha, eps, initial_scale
\* are decimals.
InvalidAlpha == "ValueError: Invalid alpha value"
InvalidEps == "ValueError: Invalid epsilon value"
\* _scale_by_stddev without the check of eps.
scale_by_stddev_impl_no_eps(alpha, eps, initial_scale) ==
    IF ~(DSign(alpha) >= 0) THEN [err |-> InvalidAlpha] ELSE [err |-> Ok]
scale_by_stddev_impl(alpha, eps, initial_scale) ==
    IF ~(DSign(alpha) >= 0) THEN [err |-> InvalidAlpha]
    ELSE IF ~(DSign(eps) >= 0) THEN [err |-> InvalidEps]
    ELSE [err |-> Ok]

NoTree == <<>>
NoState == [mu |-> NoTree, nu |-> NoTree]

\* The leaf functions of init_fn: torch.zeros_like, and the lambda around
\* torch.full_like.
init_zeros(h, a) == Fresh(Alloc(h, zeros_like(h[a[1]])))
\* init_fn's nu leaf with zeros_like for full_like.
init_full_zeros(h, a, initial_scale) == Fresh(Alloc(h, zeros_like(h[a[1]])))
init_full(h, a, initial_scale) == Fresh(Alloc(h, full_like(h[a[1]], initial_scale)))

\* n.addcmul(m, m, value=-1.0).sqrt_().add(eps): all on a temporary.
scale_of(m, n, eps) ==
    t_add_scalar(t_sqrt(t_addcmul(n, m, m, <<-1, 0>>)), eps)

\* f of the in-place branch with addcmul_ for addcmul: the variance and then
\* its root are written into n.
f_inplace_addcmul_(h, a, eps) ==
    LeafResult(
        Store(Store(h, a[3], t_sqrt(t_addcmul(h[a[3]], h[a[2]], h[a[2]], <<-1, 0>>))),
              a[1], t_div(h[a[1]], scale_of(h[a[2]], h[a[3]], eps))),
        a[1], Ok)
\* f of the in-place branch with div for div_.
f_inplace_div(h, a, eps) ==
    Fresh(Alloc(h, t_div(h[a[1]], scale_of(h[a[2]], h[a[3]], eps))))
\* f of the allocating branch with div_ for div.
f_alloc_div_(h, a, eps) ==
    LeafResult(Store(h, a[1], t_div(h[a[1]], scale_of(h[a[2]], h[a[3]], eps))), a[1], Ok)

\* f of the in-place branch, a = <<g, m, n>>: g.div_(...) writes into g.
f_inplace(h, a, eps) ==
    LeafResult(Store(h, a[1], t_div(h[a[1]], scale_of(h[a[2]], h[a[3]], eps))), a[1], Ok)

\* f of the allocating branch: g.div(...) returns a new tensor.
f_alloc(h, a, eps) ==
    Fresh(Alloc(h, t_div(h[a[1]], scale_of(h[a[2]], h[a[3]], eps))))

\* ------------------------------------------------------------ tree mapping
\* The leaf functions handed to tree_map and tree_map_, as values: the
\* function's name and the variables it closes over.
fn_zeros_like == [fn |-> "zeros_like"]
fn_full_like(initial_scale) == [fn |-> "full_like", c |-> initial_scale]
fn_moment(decay, order, inplace) ==
    [fn |-> "moment", decay |-> decay, order |-> order, inplace |-> inplace]
fn_f(inplace, eps) == [fn |-> IF inplace THEN "f_inplace" ELSE "f_alloc", eps |-> eps]
\* Calling the leaf function F on the heap h with the leaves a.
apply(F, h, a) ==
    CASE F.fn = "zeros_like" -> init_zeros(h, a)
      [] F.fn = "full_like" -> init_full(h, a, F.c)
      [] F.fn = "moment" -> moment_leaf(h, a, F.decay, F.order, F.inplace)
      [] F.fn = "f_inplace" -> f_inplace(h, a, F.eps)
      [] F.fn = "f_alloc" -> f_alloc(h, a, F.eps)

\* One leaf of a traversal: p is the traversal so far, r the leaf function's
\* result.
tree_collect(p, r) ==
    [heap |-> r.heap,
     tree |-> IF r.err = Ok THEN Append(p.tree, r.res) ELSE p.tree,
     err |-> r.err]
tree_visit(F, p, trees, i) ==
    IF p.err # Ok THEN p
    ELSE tree_collect(p, apply(F, p.heap, Tuple([k \in 1..Len(trees) |-> trees[k][i]])))

\* tree_map(F, trees...): the trees must have the same container structure;
\* F is applied to the leaves in order and the tensors it returns make up
\* the new tree.  An error of F stops the traversal; what F already wrote
\* stays written.
tree_map(F, h, trees) ==
    IF \E k \in 1..Len(trees) : Len(trees[k]) # Len(trees[1])
    THEN [heap |-> h, tree |-> <<>>, err |-> ShapeMismatch]
    ELSE LET run[i \in 0..Len(trees[1])] ==
                 IF i = 0 THEN [heap |-> h, tree |-> <<>>, err |-> Ok]
                 ELSE tree_visit(F, run[i - 1], trees, i)
         IN  run[Len(trees[1])]

\* tree_map_(F, trees...): F is called for its effect on the leaves and the
\* first tree itself is returned.
tree_first(r, tree) ==
    [heap |-> r.heap, tree |-> IF r.err = Ok THEN tree ELSE <<>>, err |-> r.err]
tree_map_(F, h, trees) == tree_first(tree_map(F, h, trees), trees[1])

\* update_moment: the leaf function over the two trees.
update_moment(h, updates, moments, decay, order, inplace) ==
    tree_map(fn_moment(decay, order, inplace), h, <<updates, moments>>)

\* init_fn: the two trees and the state made of them.
init_return(mu, nu) == [heap |-> nu.heap, state |-> [mu |-> mu.tree, nu |-> nu.tree]]
init_nu(mu, params, initial_scale) ==
    init_return(mu, tree_map(fn_full_like(initial_scale), mu.heap, <<params>>))
\* init_fn with the two fields of the state exchanged.
init_swap(r) == [heap |-> r.heap, state |-> [mu |-> r.state.nu, nu |-> r.state.mu]]
init_fn_swapped(h, params, initial_scale) ==
    init_swap(init_nu(tree_map(fn_zeros_like, h, <<params>>), params, initial_scale))
init_fn(h, params, initial_scale) ==
    init_nu(tree_map(fn_zeros_like, h, <<params>>), params, initial_scale)

\* update_fn raising from moment call `at` (1 or 2): r is that call's result.
update_raise(r, at) ==
    [heap |-> r.heap, updates |-> NoTree, state |-> NoState, err |-> r.err, at |-> at]
\* update_fn returning: u is the rescaled tree, mu and nu the new moments.
update_return(u, mu, nu) ==
    [heap |-> u.heap, updates |-> u.tree,
     state |-> [mu |-> mu.tree, nu |-> nu.tree], err |-> u.err, at |-> 0]
\* The rescaling of update_fn, by tree_map_ in place and by tree_map otherwise.
update_rescale(mu, nu, updates, inplace, eps) ==
    IF nu.err # Ok THEN update_raise(nu, 2)
    ELSE update_return(
             IF inplace
             THEN tree_map_(fn_f(TRUE, eps),
                            nu.heap, <<updates, mu.tree, nu.tree>>)
             ELSE tree_map(fn_f(FALSE, eps),
                           nu.heap, <<updates, mu.tree, nu.tree>>),
             mu, nu)
\* The second moment call of update_fn, made on the heap the first left.
update_nu(mu, updates, moments, decay, order, inplace, eps) ==
    IF mu.err # Ok THEN update_raise(mu, 1)
    ELSE update_rescale(mu,
                        update_moment(mu.heap, updates, moments, decay, order, inplace),
                        updates, inplace, eps)

\* update_fn as it would be had the rescaling been given the input state's
\* trees instead of the new moments.
update_rescale_stale(mu, nu, updates, state, inplace, eps) ==
    IF nu.err # Ok THEN update_raise(nu, 2)
    ELSE update_return(
             IF inplace
             THEN tree_map_(fn_f(TRUE, eps),
                            nu.heap, <<updates, state.mu, state.nu>>)
             ELSE tree_map(fn_f(FALSE, eps),
                           nu.heap, <<updates, state.mu, state.nu>>),
             mu, nu)
update_nu_stale(mu, updates, state, decay, inplace, eps) ==
    IF mu.err # Ok THEN update_raise(mu, 1)
    ELSE update_rescale_stale(
             mu, update_moment(mu.heap, updates, state.nu, decay, 2, inplace),
             updates, state, inplace, eps)
update_fn_stale(h, updates, state, params, inplace, alpha, eps) ==
    update_nu_stale(update_moment(h, updates, state.mu, alpha, 1, inplace),
                    updates, state, alpha, inplace, eps)

\* update_fn with the second moment taken before the first.
update_rescale_late_mu(nu, mu, updates, inplace, eps) ==
    IF mu.err # Ok THEN update_raise(mu, 1)
    ELSE update_return(
             IF inplace
             THEN tree_map_(fn_f(TRUE, eps),
                            mu.heap, <<updates, mu.tree, nu.tree>>)
             ELSE tree_map(fn_f(FALSE, eps),
                           mu.heap, <<updates, mu.tree, nu.tree>>),
             mu, nu)
update_mu_second(nu, updates, state, decay, inplace, eps) ==
    IF nu.err # Ok THEN update_raise(nu, 2)
    ELSE update_rescale_late_mu(
             nu, update_moment(nu.heap, updates, state.mu, decay, 1, inplace),
             updates, inplace, eps)
update_fn_nu_first(h, updates, state, params, inplace, alpha, eps) ==
    update_mu_second(update_moment(h, updates, state.nu, alpha, 2, inplace),
                     updates, state, alpha, inplace, eps)
\* update_fn with order=1 in both moment calls.
update_fn_order1(h, updates, state, params, inplace, alpha, eps) ==
    update_nu(update_moment(h, updates, state.mu, alpha, 1, inplace),
              updates, state.nu, alpha, 1, inplace, eps)
\* update_fn with the second moment's decay taken as 1 - alpha.
update_fn_decay(h, updates, state, params, inplace, alpha, eps) ==
    update_nu(update_moment(h, updates, state.mu, alpha, 1, inplace),
              updates, state.nu, DSub(One, alpha), 2, inplace, eps)

\* update_fn: the first moment (order 1, on state.mu), the second (order 2,
\* on state.nu), then the rescaling.  params is accepted and never read.  The
\* result names the heap after the call, the returned updates and state, the
\* error, and the moment call (1 or 2) that raised it.
update_fn(h, updates, state, params, inplace, alpha, eps) ==
    update_nu(update_moment(h, updates, state.mu, alpha, 1, inplace),
              updates, state.nu, alpha, 2, inplace, eps)

\* ------------------------------------------------------------ the caller
\* Hyperparameter grid: alpha in {-0.1, 0, 0.5, 0.9}, eps in {-1e-8, 0, 1e-8},
\* initial_scale in {-1, 0, 1}.
Alphas == {<<-1, 1>>, Zero, <<5, 1>>, <<9, 1>>, One}
Epsilons == {<<-1, 8>>, Zero, <<1, 8>>}
Scales == {<<-1, 0>>, Zero, One}
\* The constructions whose runs are followed through update calls: the
\* defaults, eps = 0, alpha = 0, a negative initial_scale, and two rejected
\* ones.
HyperParams ==
    {<<<<9, 1>>, <<1, 8>>, Zero>>,
     <<<<5, 1>>, Zero, Zero>>,
     <<Zero, <<1, 8>>, One>>,
     <<<<5, 1>>, <<1, 8>>, <<-1, 0>>>>,
     <<One, <<1, 8>>, One>>,
     <<<<-1, 1>>, <<1, 8>>, Zero>>,
     <<<<9, 1>>, <<-1, 8>>, Zero>>}
\* Element values of the tensors a caller passes.
Grads == {<<-1, 0>>, <<2, 0>>}
\* Tree structures (the leaf shapes in order) of parameter trees.
ParamShapes == {<<2>>, <<1, 1>>}
LeafLens == {1, 2}
TreeValues(shape) ==
    {t \in [1..Len(shape) -> UNION {[1..k -> Grads] : k \in LeafLens}] :
        \A i \in 1..Len(shape) : Len(t[i]) = shape[i]}
Fill(shape, c) == Tuple([i \in 1..Len(shape) |-> Tuple([j \in 1..shape[i] |-> c])])
ZeroTree(shape) == Fill(shape, Zero)
\* The params argument of update_fn: None, or a tree of the given structure.
None == <<>>
\* The arguments of update_fn calls: every update tree over Grads of a
\* parameter structure and the zero tree; a tree whose second leaf has
\* another shape; a call that also passes params, of the updates' structure
\* or of another one.
UpdateArgs ==
    {[vals |-> v, params |-> None, inplace |-> m] :
        v \in UNION {TreeValues(sh) \cup {ZeroTree(sh)} : sh \in ParamShapes},
        m \in BOOLEAN}
    \cup {[vals |-> Fill(<<1, 2>>, <<2, 0>>), params |-> None, inplace |-> m] :
        m \in BOOLEAN}
    \cup {[vals |-> Fill(<<2>>, <<2, 0>>), params |-> p, inplace |-> m] :
        p \in ParamShapes, m \in BOOLEAN}
\* The parameter trees init_fn is called on in those runs.
ParamTrees ==
    {<< <<(<<-1, 0>>), (<<2, 0>>)>> >>,
     << <<(<<-1, 0>>)>>, <<(<<2, 0>>)>> >>}
\* The addresses n+1 .. n+k.
Addrs(n, k) == Tuple([i \in 1..k |-> n + i])

VARIABLES
    ctor,       \* the construction: called, its arguments, its outcome
    heap,       \* tensor storage
    state,      \* the ScaleByRStdDevState the caller holds
    call,       \* the last init_fn/update_fn call: inputs, heap before, results
    steps,      \* number of update calls made
    failed,     \* some update call has raised
    assembled,  \* the caller built the state by hand from two init results
    shadow      \* the same run with every update call made with inplace=False

vars == <<ctor, heap, state, call, steps, failed, assembled, shadow>>

NoCall ==
    [op |-> "none", inplace |-> FALSE, pre |-> <<>>, args |-> NoTree,
     params |-> None, inState |-> NoState, outUpdates |-> NoTree,
     outState |-> NoState, err |-> Ok, at |-> 0]

Init ==
    /\ ctor = [called |-> FALSE, alpha |-> Zero, eps |-> Zero,
               initial_scale |-> Zero, err |-> Ok]
    /\ heap = <<>>
    /\ state = NoState
    /\ call = NoCall
    /\ steps = 0
    /\ failed = FALSE
    /\ assembled = FALSE
    /\ shadow = [heap |-> <<>>, state |-> NoState, out |-> <<>>, err |-> Ok]

\* scale_by_stddev(alpha, eps, initial_scale): returns the (init_fn,
\* update_fn) pair or raises.
Construct(a, e, s) ==
    /\ ~ctor.called
    /\ ctor' = [called |-> TRUE, alpha |-> a, eps |-> e, initial_scale |-> s,
                err |-> scale_by_stddev_impl(a, e, s).err]
    /\ UNCHANGED <<heap, state, call, steps, failed, assembled, shadow>>

Built == ctor.called /\ ctor.err = Ok

\* The caller calls init_fn on a parameter tree (one parameter tree per run).
Initialised(vals, r) ==
    /\ heap' = r.heap
    /\ state' = r.state
    /\ call' = [NoCall EXCEPT !.op = "init", !.pre = vals,
                              !.args = Addrs(0, Len(vals)), !.outState = r.state]
    /\ shadow' = [heap |-> r.heap, state |-> r.state, out |-> <<>>, err |-> Ok]
InitCall(vals) ==
    /\ Built
    /\ call.op = "none"
    /\ Initialised(vals, init_fn(vals, Addrs(0, Len(vals)), ctor.initial_scale))
    /\ UNCHANGED <<ctor, steps, failed, assembled>>

\* The caller keeps the state and drops every other tensor: the heap holding
\* the state's leaves only, and the state in it.
Retain(h, st) ==
    [heap |-> Leaves(h, st.mu) \o Leaves(h, st.nu),
     state |-> [mu |-> Addrs(0, Len(st.mu)), nu |-> Addrs(Len(st.mu), Len(st.nu))]]

\* ScaleByRStdDevState is a plain named tuple: the caller pairs the mu it
\* holds with the nu of init_fn on a parameter tree of another structure.
Paired(c, i) == [heap |-> i.heap, state |-> [mu |-> c.state.mu, nu |-> i.state.nu]]
PairWith(c, shape) ==
    Paired(c, init_fn(c.heap \o ZeroTree(shape), Addrs(Len(c.heap), Len(shape)),
                      ctor.initial_scale))
Assembled(r) ==
    /\ heap' = r.heap
    /\ state' = r.state
    /\ shadow' = [shadow EXCEPT !.heap = r.heap, !.state = r.state]
AssembleState(shape) ==
    /\ Built
    /\ call.op = "init"
    /\ ~assembled
    /\ shape # Structure(heap, state.mu)
    /\ Assembled(PairWith(Retain(heap, [mu |-> state.mu, nu |-> NoTree]), shape))
    /\ assembled' = TRUE
    /\ UNCHANGED <<ctor, call, steps, failed>>

\* The arguments of one update_fn call laid out in the heap: the state the
\* caller holds, a fresh update tree, and the params tree if one is passed.
Args(c, vals, pshape) ==
    [pre |-> (c.heap \o vals) \o ZeroTree(pshape),
     updates |-> Addrs(Len(c.heap), Len(vals)),
     params |-> Addrs(Len(c.heap) + Len(vals), Len(pshape)),
     state |-> c.state]
Invoke(a, inplace) ==
    [a |-> a,
     r |-> update_fn(a.pre, a.updates, a.state, a.params, inplace,
                     ctor.alpha, ctor.eps)]
Call(h, st, vals, pshape, inplace) ==
    Invoke(Args(Retain(h, st), vals, pshape), inplace)

\* What the caller holds after the call c; s is the same call made on the
\* shadow run.
Returned(c, s, inplace) ==
    /\ heap' = c.r.heap
    /\ state' = IF c.r.err = Ok THEN c.r.state ELSE c.a.state
    /\ call' = [op |-> "update", inplace |-> inplace, pre |-> c.a.pre,
                args |-> c.a.updates, params |-> c.a.params, inState |-> c.a.state,
                outUpdates |-> c.r.updates, outState |-> c.r.state,
                err |-> c.r.err, at |-> c.r.at]
    /\ failed' = (failed \/ c.r.err # Ok)
    /\ shadow' = [heap |-> s.r.heap,
                  state |-> IF s.r.err = Ok THEN s.r.state ELSE s.a.state,
                  out |-> Leaves(s.r.heap, s.r.updates),
                  err |-> s.r.err]

\* One update_fn call: a fresh update tree, the state the caller holds, an
\* optional params tree, and the mode.
Update(vals, pshape, inplace) ==
    /\ Built
    /\ call.op # "none"
    /\ steps < MaxSteps
    /\ Returned(Call(heap, state, vals, pshape, inplace),
                Call(shadow.heap, shadow.state, vals, pshape, FALSE), inplace)
    /\ steps' = steps + 1
    /\ UNCHANGED <<ctor, assembled>>

Next ==
    \/ \E hp \in HyperParams : Construct(hp[1], hp[2], hp[3])
    \/ \E vals \in ParamTrees : InitCall(vals)
    \/ \E shape \in ParamShapes : AssembleState(shape)
    \/ \E a \in UpdateArgs : Update(a.vals, a.params, a.inplace)

Spec == Init /\ [][Next]_vars

\* Construction over the whole hyperparameter grid and init_fn over every
\* parameter tree, followed by update calls with one update tree.
NextGrid ==
    \/ \E a \in Alphas, e \in Epsilons, s \in Scales : Construct(a, e, s)
    \/ \E shape \in ParamShapes : \E vals \in TreeValues(shape) : InitCall(vals)
    \/ \E m \in BOOLEAN : Update(Fill(Structure(heap, state.mu), <<2, 0>>), None, m)

SpecGrid == Init /\ [][NextGrid]_vars

\* ------------------------------------------------------------ properties
\* The last call was an update_fn call; it returned normally.
Updated == call.op = "update"
Succeeded == Updated /\ call.err = Ok

\* The elements <<leaf, index>> of the update tree of the last call.
CallElems ==
    {e \in (1..Len(call.args)) \X (1..2) : e[2] <= Len(call.pre[call.args[e[1]]])}
\* Before the call: the update element, and the moments of the input state.
G0(e) == call.pre[call.args[e[1]]][e[2]]
M0(e) == call.pre[call.inState.mu[e[1]]][e[2]]
N0(e) == call.pre[call.inState.nu[e[1]]][e[2]]
\* After the call: the element of the returned updates and returned state.
U1(e) == heap[call.outUpdates[e[1]]][e[2]]
M1(e) == heap[call.outState.mu[e[1]]][e[2]]
N1(e) == heap[call.outState.nu[e[1]]][e[2]]

\* The formulas of the specification, on elements.
Ema(decay, m, x) == DAdd(DMul(decay, m), DMul(DSub(One, decay), x))
Variance(m, n) == DSub(n, DMul(m, m))
Rescaled(g, m, n, eps) == FDiv(g, FAddScalar(FSqrt(Variance(m, n)), eps))

\* The returned trees have the leaves and leaf shapes of the update tree.
SameLayout ==
    /\ Len(call.outUpdates) = Len(call.args)
    /\ Len(call.outState.mu) = Len(call.args)
    /\ Len(call.outState.nu) = Len(call.args)
    /\ \A i \in 1..Len(call.args) :
        /\ Len(heap[call.outUpdates[i]]) = Len(call.pre[call.args[i]])
        /\ Len(heap[call.outState.mu[i]]) = Len(call.pre[call.args[i]])
        /\ Len(heap[call.outState.nu[i]]) = Len(call.pre[call.args[i]])

\* C1: every update call that returns normally, in either mode, returns for
\* every element mu' = alpha*mu + (1-alpha)*g, nu' = alpha*nu + (1-alpha)*g*g
\* and the update g / (sqrt(nu' - mu'*mu') + eps), g being the update's value
\* and mu, nu the state's values before the call; with alpha = 0.9, g = 2,
\* mu = nu = 0 this is mu' = 0.2, nu' = 0.4, variance 0.36.
C1_SingleStep ==
    Succeeded =>
        /\ SameLayout
        /\ \A e \in CallElems :
            /\ M1(e) = Ema(ctor.alpha, M0(e), G0(e))
            /\ N1(e) = Ema(ctor.alpha, N0(e), DMul(G0(e), G0(e)))
            /\ U1(e) = Rescaled(G0(e), M1(e), N1(e), ctor.eps)
            /\ (ctor.alpha = <<9, 1>> /\ G0(e) = <<2, 0>> /\ M0(e) = Zero /\ N0(e) = Zero)
                => (M1(e) = <<2, 1>> /\ N1(e) = <<4, 1>>
                    /\ Variance(M1(e), N1(e)) = <<36, 2>>)

\* The worked example, run in place (the updates are overwritten).
C1_Witness ==
    /\ Succeeded /\ call.inplace
    /\ ctor.alpha = <<9, 1>> /\ ctor.eps = <<1, 8>>
    /\ \E e \in CallElems :
        /\ G0(e) = <<2, 0>> /\ M0(e) = Zero /\ N0(e) = Zero
        /\ M1(e) = <<2, 1>> /\ N1(e) = <<4, 1>>
        /\ U1(e) = Frac(200000000, 60000001)

\* C2: fed the same update trees from the same init, a run that makes any of
\* its calls in place and the run that makes every call with inplace=False
\* hold the same moment values after every step and returned the same update
\* values (all calls being valid).
C2_ModeEquivalence ==
    (Updated /\ ~failed) =>
        /\ shadow.err = Ok
        /\ Leaves(heap, state.mu) = Leaves(shadow.heap, shadow.state.mu)
        /\ Leaves(heap, state.nu) = Leaves(shadow.heap, shadow.state.nu)
        /\ Leaves(heap, call.outUpdates) = shadow.out

\* Three valid calls, the last one in place, with a state that has moved.
C2_Witness ==
    /\ Succeeded /\ ~failed /\ call.inplace /\ steps = 3
    /\ \E e \in CallElems : M0(e) # Zero /\ M1(e) # M0(e) /\ G0(e) # Zero

\* The addresses of the tensors a call returned.
OutAddrs ==
    {call.outUpdates[i] : i \in 1..Len(call.outUpdates)}
    \cup {call.outState.mu[i] : i \in 1..Len(call.outState.mu)}
    \cup {call.outState.nu[i] : i \in 1..Len(call.outState.nu)}

\* C3: with inplace=False an update call leaves every input tensor (updates,
\* state.mu, state.nu) with the values it had, whether it returns or raises,
\* and what it returns is newly allocated: no returned leaf is an input leaf
\* and no two returned leaves share storage.
C3_AllocatingFrame ==
    (Updated /\ ~call.inplace) =>
        /\ \A a \in 1..Len(call.pre) : heap[a] = call.pre[a]
        /\ \A a \in OutAddrs : a > Len(call.pre)
        /\ call.err = Ok => Cardinality(OutAddrs) = 3 * Len(call.args)

C3_Witness ==
    /\ Succeeded /\ ~call.inplace /\ Len(call.args) = 2
    /\ \E e \in CallElems : U1(e) # G0(e) /\ M1(e) # M0(e) /\ N1(e) # N0(e)

\* C4: with inplace=True an update call that returns normally returns the
\* input trees themselves: the returned updates are the input updates' leaves
\* and now hold the rescaled values, the returned mu and nu are the input
\* state's leaves and now hold mu' and nu', so the caller's old state shows
\* the new moments.
C4_InPlaceAliasing ==
    (Succeeded /\ call.inplace) =>
        /\ call.outUpdates = call.args
        /\ call.outState = call.inState
        /\ Len(heap) = Len(call.pre)
        /\ \A e \in CallElems :
            /\ heap[call.inState.mu[e[1]]][e[2]] = Ema(ctor.alpha, M0(e), G0(e))
            /\ heap[call.inState.nu[e[1]]][e[2]]
                   = Ema(ctor.alpha, N0(e), DMul(G0(e), G0(e)))
            /\ heap[call.args[e[1]]][e[2]]
                   = Rescaled(G0(e), Ema(ctor.alpha, M0(e), G0(e)),
                              Ema(ctor.alpha, N0(e), DMul(G0(e), G0(e))), ctor.eps)

\* The old state's storage no longer holds the old moments.
C4_Witness ==
    /\ Succeeded /\ call.inplace
    /\ \E e \in CallElems :
        /\ heap[call.inState.mu[e[1]]][e[2]] # M0(e)
        /\ heap[call.inState.nu[e[1]]][e[2]] # N0(e)
        /\ heap[call.args[e[1]]][e[2]] # G0(e)

\* The elements <<leaf, index>> of the params tree of the last init_fn call.
InitElems ==
    {e \in (1..Len(call.args)) \X (1..2) : e[2] <= Len(call.pre[call.args[e[1]]])}

\* C5: init_fn on a params tree returns a state whose mu and nu have the
\* leaves and leaf shapes of params, every mu element 0 and every nu element
\* initial_scale, whatever values params holds; the leaves are new tensors
\* and params is left as it was.
C5_InitStructure ==
    call.op = "init" =>
        /\ Structure(heap, state.mu) = Structure(call.pre, call.args)
        /\ Structure(heap, state.nu) = Structure(call.pre, call.args)
        /\ \A e \in InitElems :
            /\ heap[state.mu[e[1]]][e[2]] = Zero
            /\ heap[state.nu[e[1]]][e[2]] = ctor.initial_scale
        /\ \A a \in 1..Len(call.pre) : heap[a] = call.pre[a]
        /\ \A i \in 1..Len(state.mu) :
            state.mu[i] > Len(call.pre) /\ state.nu[i] > Len(call.pre)

\* init_fn on a two-leaf tree of non-zero values, with initial_scale = 1.
C5_Witness ==
    /\ call.op = "init" /\ ctor.initial_scale = One
    /\ Len(call.args) = 2 /\ Len(state.nu) = 2
    /\ \E e \in InitElems :
        call.pre[call.args[e[1]]][e[2]] = <<2, 0>> /\ heap[state.nu[e[1]]][e[2]] = One

\* C6: scale_by_stddev raises ValueError for alpha < 0 and for eps < 0, and
\* then no init_fn or update_fn exists to be called (no call is made, no
\* state or tensor exists); for alpha >= 0 and eps >= 0 it returns; init_fn
\* and update_fn raise nothing but ShapeMismatch.
C6_ValidatedAtConstruction ==
    ctor.called =>
        /\ (DSign(ctor.alpha) < 0 \/ DSign(ctor.eps) < 0) =>
            /\ ctor.err \in {InvalidAlpha, InvalidEps}
            /\ call = NoCall /\ state = NoState /\ heap = <<>> /\ steps = 0
        /\ (DSign(ctor.alpha) >= 0 /\ DSign(ctor.eps) >= 0) => ctor.err = Ok
        /\ call.err \in {Ok, ShapeMismatch}

\* A construction that fails on eps alone.
C6_Witness ==
    /\ ctor.called /\ DSign(ctor.alpha) >= 0 /\ DSign(ctor.eps) < 0
    /\ ctor.err = InvalidEps

\* The structure of the update tree of the last call against the structure of
\* state.mu, of state.nu and of params (None, or a tree).
MuOk == Structure(call.pre, call.args) = Structure(call.pre, call.inState.mu)
NuOk == Structure(call.pre, call.args) = Structure(call.pre, call.inState.nu)
ParamsOk ==
    call.params = None
    \/ Structure(call.pre, call.params) = Structure(call.pre, call.args)
\* The call left the leaves of the tree as they were.
Untouched(tree) == \A i \in 1..Len(tree) : heap[tree[i]] = call.pre[tree[i]]

\* C7 (as the code has it): an update call raises ShapeMismatch exactly when
\* updates, state.mu and state.nu are not of one structure, params playing no
\* part; the order-1 call on state.mu raises it if updates and state.mu
\* differ (the order-2 call is then never made and state.nu is untouched),
\* otherwise the order-2 call on state.nu; nothing is returned and the
\* updates hold their values, no rescaling having been done.
C7_ShapeMismatch ==
    Updated =>
        /\ ~MuOk => (call.err = ShapeMismatch /\ call.at = 1)
        /\ (MuOk /\ ~NuOk) => (call.err = ShapeMismatch /\ call.at = 2)
        /\ (MuOk /\ NuOk) => call.err = Ok
        /\ call.err = ShapeMismatch =>
            /\ call.outUpdates = NoTree /\ call.outState = NoState
            /\ Untouched(call.args)
            /\ call.at = 1 => Untouched(call.inState.nu)

\* The order-2 call raising, in place, after the order-1 call has advanced mu.
C7_Witness ==
    /\ Updated /\ call.inplace /\ call.err = ShapeMismatch /\ call.at = 2
    /\ MuOk /\ ~NuOk
    /\ ~Untouched(call.inState.mu)

\* C7 as stated: a params tree that does not fit the updates also makes the
\* call raise ShapeMismatch.
C7_Original ==
    Updated => ((~MuOk \/ ~NuOk \/ ~ParamsOk) => call.err = ShapeMismatch)

\* C8: with alpha = 0 an update call that returns leaves mu' equal to the
\* updates it was given and nu' equal to their squares, whatever the state
\* held before; the state the caller then holds is a function of the last
\* update tree alone.
C8_PureReset ==
    (Succeeded /\ ctor.alpha = Zero) =>
        /\ \A e \in CallElems : M1(e) = G0(e) /\ N1(e) = DMul(G0(e), G0(e))
        /\ state = call.outState
        /\ Leaves(heap, state.mu) = Leaves(call.pre, call.args)

\* A second call whose input state differs from what it is reset to.
C8_Witness ==
    /\ Succeeded /\ ctor.alpha = Zero /\ steps >= 2
    /\ \E e \in CallElems :
        /\ M0(e) # Zero /\ M0(e) # G0(e) /\ N0(e) # DMul(G0(e), G0(e))
        /\ M1(e) = G0(e)

\* nu - s*s for the sample s.
Dist(n, s) == DSub(n, DMul(s, s))

\* C9: for 0 < alpha < 1, an update call fed a non-zero sample s moves nu
\* from distance d = nu - s*s to exactly alpha*d: |nu' - s*s| <= |nu - s*s|
\* and nu' is on the side of s*s that nu was on (no overshoot).  Over calls
\* fed the same s the distance after k calls is alpha^k * d: it never grows
\* and it shrinks geometrically to 0.
C9_MonotoneDecay ==
    (Succeeded /\ DSign(ctor.alpha) > 0 /\ DSign(DSub(One, ctor.alpha)) > 0) =>
        \A e \in CallElems :
            G0(e) # Zero =>
                /\ Dist(N1(e), G0(e)) = DMul(ctor.alpha, Dist(N0(e), G0(e)))
                /\ DLeq(DAbs(Dist(N1(e), G0(e))), DAbs(Dist(N0(e), G0(e))))
                /\ DSign(Dist(N1(e), G0(e))) = DSign(Dist(N0(e), G0(e)))

\* The third of three calls fed s = 2 from nu = 0 with alpha = 0.9:
\* nu = 0.4, 0.76, 1.084.
C9_Witness ==
    /\ Succeeded /\ ctor.alpha = <<9, 1>> /\ steps = 3
    /\ \E e \in CallElems :
        G0(e) = <<2, 0>> /\ N0(e) = <<76, 2>> /\ N1(e) = <<1084, 3>>

\* The elements <<leaf, index>> of the state the caller holds.
StateElems ==
    {e \in (1..Len(state.mu)) \X (1..2) : e[2] <= Len(heap[state.mu[e[1]]])}
InRange ==
    /\ DSign(ctor.alpha) >= 0 /\ DLeq(ctor.alpha, One)
    /\ DSign(ctor.initial_scale) >= 0
NonNegative ==
    \A e \in StateElems :
        DSign(Variance(heap[state.mu[e[1]]][e[2]], heap[state.nu[e[1]]][e[2]])) >= 0

====
